---- MODULE Spec2Model ----
(***************************************************************************)
(* The EventIQ JavaScript SDK: one client class whose tracking methods     *)
(* build an event envelope and hand it to axios.post, fire-and-forget.     *)
(*                                                                         *)
(* JavaScript values are records [t, v, len]: t is the result of typeof    *)
(* (with "null" kept apart from "object"), v the payload as a string (for  *)
(* an object: the name of the heap cell it refers to), len the value of    *)
(* its length property (0 when the value has none: undefined > 0 is        *)
(* false, like 0 > 0).  A JavaScript object is a function from its keys to *)
(* values.                                                                 *)
(***************************************************************************)
EXTENDS Integers, Sequences, FiniteSets, TLC

VARIABLES
    Constants,   \* the imported Constants table (one of the two in the sources)
    client,      \* the EventIQ instance: NoClient, or [projectId, URL]
    ctor,        \* the arguments and outcome of the last constructor call
    heap,        \* the caller's metadata objects, by reference
    inflight,    \* requests handed to axios.post and not yet settled
    lastCall,    \* the last tracking call: method, arguments, outcome
    ncalls,      \* number of tracking calls made
    posts,       \* number of axios.post calls issued
    lastSettle,  \* outcome of the last settled request
    unhandled    \* TRUE once a rejection was left without a handler

vars == <<Constants, client, ctor, heap, inflight, lastCall, ncalls, posts,
          lastSettle, unhandled>>

\* Bound on the number of tracking calls of one run.
MaxCalls == 2

----------------------------------------------------------------------------
\* JavaScript values

Undefined == [t |-> "undefined", v |-> "", len |-> 0]
Null == [t |-> "null", v |-> "", len |-> 0]
Str(s, n) == [t |-> "string", v |-> s, len |-> n]
Num(s) == [t |-> "number", v |-> s, len |-> 0]
Ref(r) == [t |-> "object", v |-> r, len |-> 0]
Arr(r, n) == [t |-> "object", v |-> r, len |-> n]

\* typeof x
TypeOf(x) == IF x.t = "null" THEN "object" ELSE x.t

\* ToBoolean(x): what `!x` and `x &&` test
Truthy(x) ==
    CASE x.t = "undefined" -> FALSE
      [] x.t = "null" -> FALSE
      [] x.t = "string" -> x.v # ""
      [] x.t = "number" -> x.v \notin {"0", "NaN"}
      [] OTHER -> TRUE

\* a parameter with a default value: the default replaces undefined only
DefaultParam(x, d) == IF x = Undefined THEN d ELSE x

\* obj.key, undefined when the key is absent
Get(obj, key) == IF key \in DOMAIN obj THEN obj[key] ELSE Undefined

\* obj.key = val
SetProp(obj, key, val) ==
    [k \in DOMAIN obj \cup {key} |-> IF k = key THEN val ELSE obj[k]]

\* { ...base, ...m } with base written first: a key of m wins
Spread(base, m) ==
    [k \in DOMAIN base \cup DOMAIN m |-> IF k \in DOMAIN m THEN m[k] ELSE base[k]]

EmptyObject == [k \in {} |-> Undefined]

----------------------------------------------------------------------------
\* The two Constants tables of the sources

ConstantsLower ==
    [k \in {"CLICK", "ERROR", "LOG", "EVENT", "VISIT", "FORM_INTERACT",
            "FORM_SUBMIT", "SESSION_START", "SESSION_END"} |->
        CASE k = "CLICK" -> Str("click", 5)
          [] k = "ERROR" -> Str("error", 5)
          [] k = "LOG" -> Str("log", 3)
          [] k = "EVENT" -> Str("event", 5)
          [] k = "VISIT" -> Str("visit", 5)
          [] k = "FORM_INTERACT" -> Str("form_interact", 13)
          [] k = "FORM_SUBMIT" -> Str("form_submit", 11)
          [] k = "SESSION_START" -> Str("session_start", 13)
          [] k = "SESSION_END" -> Str("session_end", 11)]

ConstantsUpper ==
    [k \in {"CLICK", "ERROR", "LOG", "MILESTONE", "VISIT", "FORM_INTERACT",
            "FORM_SUBMIT", "SESSION_START", "SESSION_END", "SESSION_ID"} |->
        CASE k = "CLICK" -> Str("CLICK", 5)
          [] k = "ERROR" -> Str("ERROR", 5)
          [] k = "LOG" -> Str("LOG", 3)
          [] k = "MILESTONE" -> Str("MILESTONE", 9)
          [] k = "VISIT" -> Str("VISIT", 5)
          [] k = "FORM_INTERACT" -> Str("FORM_INTERACT", 13)
          [] k = "FORM_SUBMIT" -> Str("FORM_SUBMIT", 11)
          [] k = "SESSION_START" -> Str("SESSION_START", 13)
          [] k = "SESSION_END" -> Str("SESSION_END", 11)
          [] k = "SESSION_ID" -> Str("sessionId", 9)]

----------------------------------------------------------------------------
\* Inputs

DefaultURL == Str("http://localhost:8080/api/v1/public/event", 41)
CustomURL == Str("https://api.mycompany.com/events", 32)

ProjectIdInputs ==
    {Undefined, Null, Str("", 0), Str("proj_1", 6),
     Num("0"), Num("42"), Ref("o")}

UrlInputs == {Undefined, Str("", 0), CustomURL, Arr("urls", 1)}

Labels == {Str("submit", 6), Str("cancel", 6)}

\* the caller's metadata objects
CallerHeap ==
    ("m1" :> ("page" :> Str("checkout", 8))) @@
    ("m2" :> ("a" :> Num("1") @@ "type" :> Str("HACK", 4)
                @@ "projectId" :> Str("other", 5)))

MetaInputs == {Undefined, Null} \cup {Ref(r) : r \in DOMAIN CallerHeap}

NonClickMethods ==
    {"log", "event", "visit", "error", "formInteract", "formSubmit",
     "sessionStart", "sessionEnd"}

\* the key of Constants each method reads
KindKey(method) ==
    CASE method = "click" -> "CLICK"
      [] method = "log" -> "LOG"
      [] method = "event" -> "EVENT"
      [] method = "visit" -> "VISIT"
      [] method = "error" -> "ERROR"
      [] method = "formInteract" -> "FORM_INTERACT"
      [] method = "formSubmit" -> "FORM_SUBMIT"
      [] method = "sessionStart" -> "SESSION_START"
      [] method = "sessionEnd" -> "SESSION_END"

----------------------------------------------------------------------------
\* State

NoClient == [projectId |-> Undefined, URL |-> Undefined]
NoCall == [method |-> "none", label |-> Undefined, arg |-> Undefined,
           result |-> "none"]

Init ==
    /\ Constants \in {ConstantsLower, ConstantsUpper}
    /\ client = NoClient
    /\ ctor = [projectId |-> Undefined, url |-> Undefined, result |-> "none"]
    /\ heap = CallerHeap
    /\ inflight = <<>>
    /\ lastCall = NoCall
    /\ ncalls = 0
    /\ posts = 0
    /\ lastSettle = "none"
    /\ unhandled = FALSE

----------------------------------------------------------------------------
\* constructor(projectId, url = "")

\* a validation that forgets the typeof test
InvalidProjectId_TruthyOnly(projectId) == ~Truthy(projectId)

\* the condition under which the constructor throws
InvalidProjectId(projectId) ==
    ~Truthy(projectId) \/ TypeOf(projectId) # "string"

\* the condition under which the constructor replaces the default URL
UrlOverrides(url) ==
    Truthy(url) /\ TypeOf(url) # "string" /\ url.len > 0

Construct(projectId, urlArg) ==
    LET url == DefaultParam(urlArg, Str("", 0)) IN
    /\ client = NoClient
    /\ IF InvalidProjectId(projectId)
         THEN /\ ctor' = [projectId |-> projectId, url |-> urlArg,
                          result |-> "threw"]
              /\ client' = client
         ELSE /\ ctor' = [projectId |-> projectId, url |-> urlArg,
                          result |-> "constructed"]
              /\ client' = [projectId |-> projectId,
                            URL |-> IF UrlOverrides(url) THEN url
                                                         ELSE DefaultURL]
    /\ UNCHANGED <<Constants, heap, inflight, lastCall, ncalls, posts,
                   lastSettle, unhandled>>

----------------------------------------------------------------------------
\* _processEvent(event) and the envelopes

\* the object an envelope denotes: every reference followed
Content(event, objects) ==
    [k \in DOMAIN event |->
        IF event[k].t = "object" THEN objects[event[k].v] ELSE event[k]]

\* the request axios.post(this.URL, event) starts.  event holds references;
\* fresh holds the objects only this envelope refers to; built is what the
\* envelope denoted when it was handed over; call is the call that built it
\* and before its metadata argument as the call received it.
processEvent(event, fresh, objects, call, before) ==
    [url |-> client.URL, event |-> event, fresh |-> fresh,
     built |-> Content(event, fresh @@ objects), call |-> call,
     before |-> before]

\* what the envelope of a request in flight denotes now: axios keeps the
\* envelope object it was given, and with it every reference the envelope holds
EnvelopeContent(req) == Content(req.event, req.fresh @@ heap)

\* a click that replaces the caller's object instead of adding to it
ClickMetaData_Replace(obj, type) ==
    [k \in {"button"} |-> type]

\* metaData.button = type, on the object metaData refers to
ClickMetaData(obj, type) == SetProp(obj, "button", type)

\* a click envelope that names the project identifier iq_project_id
ClickEnvelope_LegacyKey(kind, projectId, metaData) ==
    [k \in {"type", "iq_project_id", "metaData"} |->
        CASE k = "type" -> kind
          [] k = "iq_project_id" -> projectId
          [] k = "metaData" -> metaData]

\* the object literal click passes to _processEvent
ClickEnvelope(kind, projectId, metaData) ==
    [k \in {"type", "projectId", "metaData"} |->
        CASE k = "type" -> kind
          [] k = "projectId" -> projectId
          [] k = "metaData" -> metaData]

\* the object literal every other method passes to _processEvent
FlatEnvelope(kind, projectId, obj) ==
    Spread([k \in {"type", "projectId"} |->
               IF k = "type" THEN kind ELSE projectId], obj)

\* what ...metaData copies: the properties of the object metaData refers
\* to, and nothing for null, undefined or a number
OwnProperties(metaData) ==
    IF metaData.t = "object" THEN heap[metaData.v] ELSE EmptyObject

\* a method without its null test
NullGuard_Dropped(metaData) == TRUE

\* `metaData !== null`
NullGuard(metaData) == metaData # Null

\* a property can be set on an object only: on null and undefined, and in
\* strict code on a primitive, the assignment throws a TypeError
CanSetProperty(x) == x.t = "object"

FreshRef == Ref("fresh")

CanCall == client # NoClient /\ ncalls < MaxCalls

click(type, metaDataArg) ==
    LET metaData == DefaultParam(metaDataArg, FreshRef)
        isFresh == metaDataArg = Undefined
        call(result) == [method |-> "click", label |-> type,
                         arg |-> metaDataArg, result |-> result]
    IN
    /\ CanCall
    /\ ncalls' = ncalls + 1
    /\ IF ~CanSetProperty(metaData)
         THEN /\ lastCall' = call("threw")
              /\ UNCHANGED <<heap, inflight, posts>>
         ELSE LET before == IF isFresh THEN EmptyObject ELSE heap[metaData.v]
                  after == ClickMetaData(before, type)
                  fresh == IF isFresh THEN ("fresh" :> after) ELSE EmptyObject
                  event == ClickEnvelope(Get(Constants, "CLICK"),
                                         client.projectId, metaData)
              IN
              /\ heap' = IF isFresh THEN heap
                                    ELSE [heap EXCEPT ![metaData.v] = after]
              /\ inflight' = Append(inflight,
                     processEvent(event, fresh, heap', call("returned"),
                                  before))
              /\ posts' = posts + 1
              /\ lastCall' = call("returned")
    /\ UNCHANGED <<Constants, client, ctor, lastSettle, unhandled>>

\* the body shared by log, event, visit, error, formInteract, formSubmit,
\* sessionStart and sessionEnd, which differ in the Constants key only
Track(method, metaDataArg) ==
    LET metaData == DefaultParam(metaDataArg, FreshRef)
        isFresh == metaDataArg = Undefined
        call == [method |-> method, label |-> Undefined,
                 arg |-> metaDataArg, result |-> "returned"]
    IN
    /\ CanCall
    /\ ncalls' = ncalls + 1
    /\ lastCall' = call
    /\ IF NullGuard(metaData)
         THEN LET obj == IF isFresh THEN EmptyObject
                                    ELSE OwnProperties(metaData)
                  event == FlatEnvelope(Get(Constants, KindKey(method)),
                                        client.projectId, obj)
              IN
              /\ inflight' = Append(inflight,
                     processEvent(event, EmptyObject, heap, call, obj))
              /\ posts' = posts + 1
         ELSE UNCHANGED <<inflight, posts>>
    /\ UNCHANGED <<Constants, client, ctor, heap, lastSettle, unhandled>>

log(metaData) == Track("log", metaData)
event(metaData) == Track("event", metaData)
visit(metaData) == Track("visit", metaData)
error(metaData) == Track("error", metaData)
formInteract(metaData) == Track("formInteract", metaData)
formSubmit(metaData) == Track("formSubmit", metaData)
sessionStart(metaData) == Track("sessionStart", metaData)
sessionEnd(metaData) == Track("sessionEnd", metaData)

----------------------------------------------------------------------------
\* The promise chain axios.post(...).then(f).catch(g)

\* f, the .then handler: empty, so the promise it yields is fulfilled
OnFulfilled == "fulfilled"

\* a .catch handler that throws the error again
OnRejected_Rethrow == "rejected"

\* g, the .catch handler: empty, so the promise it yields is fulfilled
OnRejected == "fulfilled"

\* the state of the last promise of the chain
Chain(outcome) ==
    LET afterThen == IF outcome = "fulfilled" THEN OnFulfilled ELSE "rejected"
    IN IF afterThen = "rejected" THEN OnRejected ELSE afterThen

RemoveAt(s, i) == [j \in 1..(Len(s) - 1) |-> IF j < i THEN s[j] ELSE s[j + 1]]

\* the transport settles request i, in any order, either way
Settle(i, outcome) ==
    /\ i \in DOMAIN inflight
    /\ inflight' = RemoveAt(inflight, i)
    /\ lastSettle' = outcome
    /\ unhandled' = (unhandled \/ Chain(outcome) = "rejected")
    /\ UNCHANGED <<Constants, client, ctor, heap, lastCall, ncalls, posts>>

----------------------------------------------------------------------------
Next ==
    \/ \E p \in ProjectIdInputs, u \in UrlInputs : Construct(p, u)
    \/ \E l \in Labels, m \in MetaInputs : click(l, m)
    \/ \E m \in MetaInputs : log(m)
    \/ \E m \in MetaInputs : event(m)
    \/ \E m \in MetaInputs : visit(m)
    \/ \E m \in MetaInputs : error(m)
    \/ \E m \in MetaInputs : formInteract(m)
    \/ \E m \in MetaInputs : formSubmit(m)
    \/ \E m \in MetaInputs : sessionStart(m)
    \/ \E m \in MetaInputs : sessionEnd(m)
    \/ \E i \in 1..MaxCalls, o \in {"fulfilled", "rejected"} : Settle(i, o)

Spec == Init /\ [][Next]_vars

----------------------------------------------------------------------------
\* Properties

IsNonEmptyString(x) == x.t = "string" /\ x.len > 0

Requests == {inflight[i] : i \in DOMAIN inflight}

\* obj with key set to val, the other keys kept
With(obj, key, val) ==
    [k \in DOMAIN obj \cup {key} |-> IF k = key THEN val ELSE obj[k]]

\* the event kinds as the specification enumerates them
EnumeratedKind(method) ==
    IF method = "event" THEN Str("EVENT", 5)
                        ELSE ConstantsUpper[KindKey(method)]

\* C1: the constructor throws, and yields no client, for a projectId that is
\* undefined, null, the empty string or not a string, and yields a client
\* holding the projectId for every non-empty string.
C1_ConstructorValidation ==
    ctor.result # "none" =>
        /\ ctor.result = "constructed" <=> IsNonEmptyString(ctor.projectId)
        /\ ctor.result = "threw" => client = NoClient
        /\ ctor.result = "constructed" =>
              client # NoClient /\ client.projectId = ctor.projectId

C1_Witness ==
    /\ ctor.result = "threw"
    /\ ctor.projectId = Num("42")
    /\ client = NoClient

\* C2 (as claimed): every request goes to the endpointUrl given to the
\* constructor when that is a non-empty string, and to the default endpoint
\* when it was omitted or empty.
C2_EndpointFromConstructor ==
    \A r \in Requests :
        /\ IsNonEmptyString(ctor.url) => r.url = ctor.url
        /\ ctor.url \in {Undefined, Str("", 0)} => r.url = DefaultURL

\* C3 (as claimed): a non-click method called with a mapping that has no
\* type and no projectId key dispatches exactly the mapping's keys plus type,
\* the method's enumerated kind, and projectId, the client's.
C3_FlatEnvelope ==
    \A r \in Requests :
        (r.call.method \in NonClickMethods
            /\ r.call.arg.t = "object"
            /\ DOMAIN r.before \cap {"type", "projectId"} = {}) =>
        r.built = With(With(r.before, "type", EnumeratedKind(r.call.method)),
                       "projectId", client.projectId)

\* C4 (as claimed): a non-click method called with a mapping that has a type
\* or a projectId key still dispatches the method's kind and the client's
\* project identifier under those keys.
C4_CanonicalKeysWin ==
    \A r \in Requests :
        r.call.method \in NonClickMethods =>
            /\ "type" \in DOMAIN r.before =>
                  r.built["type"] = Get(Constants, KindKey(r.call.method))
            /\ "projectId" \in DOMAIN r.before =>
                  r.built["projectId"] = client.projectId

\* C5: a non-click method called with null returns without issuing a request;
\* called with no argument it issues one request, whose envelope is built
\* from the empty mapping.
C5_NullIsNoOp ==
    [][(ncalls' = ncalls + 1 /\ lastCall'.method \in NonClickMethods) =>
          /\ lastCall'.arg = Null =>
                /\ posts' = posts
                /\ inflight' = inflight
                /\ lastCall'.result = "returned"
          /\ lastCall'.arg = Undefined =>
                /\ posts' = posts + 1
                /\ Len(inflight') = Len(inflight) + 1
                /\ SubSeq(inflight', 1, Len(inflight)) = inflight
                /\ inflight'[Len(inflight')].before = EmptyObject
                /\ DOMAIN inflight'[Len(inflight')].built
                      = {"type", "projectId"}]_vars

C5_Witness ==
    /\ lastCall.method = "sessionEnd"
    /\ lastCall.arg = Null
    /\ lastCall.result = "returned"
    /\ ncalls = 1
    /\ posts = 0

\* C6: click(label, m) dispatches an envelope with the keys type, projectId
\* and metaData only, where type is the CLICK kind, projectId the client's
\* and metaData is m with button set to label.
C6_ClickEnvelope ==
    \A r \in Requests :
        r.call.method = "click" =>
            /\ DOMAIN r.built = {"type", "projectId", "metaData"}
            /\ r.built["type"] = Constants["CLICK"]
            /\ r.built["projectId"] = client.projectId
            /\ r.built["metaData"] = With(r.before, "button", r.call.label)

C6_Witness ==
    \E r \in Requests :
        /\ r.call.method = "click"
        /\ r.call.arg = Ref("m2")
        /\ r.call.label = Str("submit", 6)
        /\ r.built["metaData"] = With(CallerHeap["m2"], "button", Str("submit", 6))

\* C7 (as claimed): every tracking call with non-null metadata issues exactly
\* one request, and the envelope of a request in flight stays what its own
\* call built, whatever calls follow.
C7_NoSharedEnvelope ==
    /\ [](\A r \in Requests : EnvelopeContent(r) = r.built)
    /\ [][(ncalls' = ncalls + 1 /\ lastCall'.arg # Null) =>
             (posts' = posts + 1 /\ Len(inflight') = Len(inflight) + 1)]_vars

\* C8: when a request is rejected the rejection is handled, no further
\* request is issued, and the call that issued it had returned normally;
\* nothing the caller observes changes.
C8_FailureIsSilent ==
    [][(Len(inflight') < Len(inflight) /\ lastSettle' = "rejected") =>
          /\ ~unhandled'
          /\ posts' = posts
          /\ lastCall' = lastCall
          /\ \A i \in DOMAIN inflight :
                inflight' = RemoveAt(inflight, i) =>
                    inflight[i].call.result = "returned"]_vars

C8_Witness ==
    /\ lastSettle = "rejected"
    /\ posts = 1
    /\ inflight = <<>>
    /\ lastCall.result = "returned"
    /\ ~unhandled

\* C9 (as claimed): on a constructed client no tracking call throws.
C9_NoTrackingCallThrows == lastCall.result # "threw"

\* C10: click(label, m) changes the caller's object m by setting button to
\* label and changes no other object; every other method changes no object;
\* no step changes the projectId or the URL of a constructed client.
C10_Frame ==
    [][/\ client # NoClient => client' = client
       /\ ncalls' = ncalls => heap' = heap
       /\ ncalls' = ncalls + 1 =>
             IF lastCall'.method = "click" /\ lastCall'.arg.t = "object"
               THEN heap' = [heap EXCEPT ![lastCall'.arg.v] =
                                With(heap[lastCall'.arg.v], "button",
                                     lastCall'.label)]
               ELSE heap' = heap]_vars

C10_Witness ==
    /\ lastCall.method = "click"
    /\ lastCall.arg = Ref("m1")
    /\ heap["m1"] = With(CallerHeap["m1"], "button", lastCall.label)
    /\ heap["m2"] = CallerHeap["m2"]

====
